---- MODULE Spec2Model ----
(***************************************************************************)
(* Model of src/app.py (category gacha simulator):                         *)
(*   load_json_data           - JSON text -> category catalog or None      *)
(*   generate_category_drops  - weighted draw per category                 *)
(*   main                     - one script run per user action, acting on  *)
(*                              st.session_state                           *)
(*                                                                         *)
(* Python values are modelled as follows.  A dict is a function (a record  *)
(* when its keys are strings), a list is a sequence, None is the value     *)
(* None below.  A JSON document is [valid, isDict, data]: json.loads       *)
(* raises for valid = FALSE, returns a non-dict for isDict = FALSE and the *)
(* dict data otherwise.  A category's value is [isList, items]; an item is *)
(* [isDict, obj] where obj holds the keys that are present.  A raw rarity  *)
(* is [t, v]: t says which kind of JSON value it is, as far as int()       *)
(* distinguishes them.                                                     *)
(***************************************************************************)
EXTENDS FiniteSets, Integers, Sequences, TLC

VARIABLES
    \* load_json_data, called once on a document
    json_text,          \* the argument
    loaded,             \* [ret, msgs]: the return value and the st.* messages
    \* generate_category_drops, called once on a catalog held in a heap
    heap,               \* object id -> dict
    catalog,            \* categories_data: category -> sequence of object ids
    counts,             \* category_counts
    drops,              \* the returned mapping: category -> sequence of object ids
    \* main
    session_state,      \* st.session_state
    input_method,       \* the radio's value in the last run
    json_input,         \* the text (or file content) supplied in the last run
    categories_data,    \* main's local after the sidebar, lines 202-228
    generate_button,    \* the generate button's value in the last run
    pc

vars == <<json_text, loaded, heap, catalog, counts, drops, session_state,
          input_method, json_input, categories_data, generate_button, pc>>

loadVars == <<json_text, loaded>>
dropVars == <<heap, catalog, counts, drops>>
mainVars == <<session_state, input_method, json_input, categories_data, generate_button>>

----------------------------------------------------------------------------
(* Bounds *)

\* most items in one document, all categories together
MaxItems == 3
\* longest item pool of a catalog handed to generate_category_drops
MaxPool == 2
\* largest requested count (the widget allows up to MaxValue)
MaxCount == 2

----------------------------------------------------------------------------
(* Python helpers *)

None == [None |-> TRUE]

Max(a, b) == IF a >= b THEN a ELSE b
Min(a, b) == IF a <= b THEN a ELSE b

Range(s) == {s[i] : i \in DOMAIN s}

RECURSIVE SeqSum(_)
SeqSum(s) == IF s = << >> THEN 0 ELSE Head(s) + SeqSum(Tail(s))

\* dict.get(key, default)
Get(d, key, default) == IF key \in DOMAIN d THEN d[key] ELSE default

\* bool(x) of a dict, a list or None
Truthy(x) == x # None /\ DOMAIN x # {}

\* int(x) on a JSON value: an integer converts, a non-numeric string raises
\* ValueError, null raises TypeError, an infinite float (1e999, Infinity)
\* raises OverflowError
PyInt(raw) ==
    CASE raw.t = "int"  -> [exc |-> "none", v |-> raw.v]
      [] raw.t = "str"  -> [exc |-> "ValueError", v |-> 0]
      [] raw.t = "null" -> [exc |-> "TypeError", v |-> 0]
      [] raw.t = "inf"  -> [exc |-> "OverflowError", v |-> 0]

\* str(x) on a JSON string
PyStr(s) == s

----------------------------------------------------------------------------
(* load_json_data *)

CatOrder == <<"Fruits", "Veg">>
CatNames == Range(CatOrder)

\* line 59 numbering the items from 0
DefaultNameFromZero(i) == "Element " \o ToString(i)

\* f'... {i+1}' of line 59, i the 0-based enumerate index; the literal's
\* Cyrillic word is transliterated
DefaultName(i) == "Element " \o ToString(i + 1)

DefaultRarity == [t |-> "int", v |-> 3]

\* line 64 with a missing lower bound
ClampRarityNoFloor(rarity) == Min(3, rarity)

\* line 64
ClampRarity(rarity) == Max(1, Min(3, rarity))

\* lines 61-74, from the value int() gave: st is "ok" (appended), "skip"
\* (warning and continue) or "raise" (an exception the inner try does not
\* catch, which leaves the loops)
Converted(name, image, conv, i, category) ==
    CASE conv.exc = "none" ->
            [st |-> "ok",
             rec |-> [name |-> name, image |-> image,
                      rarity |-> ClampRarity(conv.v), weight |-> ClampRarity(conv.v)],
             msg |-> << >>]
      [] conv.exc \in {"ValueError", "TypeError"} ->
            [st |-> "skip", rec |-> << >>,
             msg |-> <<"warning", "item_error", category, i + 1>>]
      [] OTHER ->
            [st |-> "raise", rec |-> << >>, msg |-> << >>]

\* lines 53-74: one pass of the item loop on item, i its 0-based index
ParseItem(item, i, category) ==
    IF ~item.isDict
    THEN [st |-> "skip", rec |-> << >>, msg |-> <<"warning", "not_dict", category, i + 1>>]
    ELSE Converted(PyStr(Get(item.obj, "name", DefaultName(i))),
                   PyStr(Get(item.obj, "image", "")),
                   PyInt(Get(item.obj, "rarity", DefaultRarity)),
                   i, category)

\* lines 51-74: the loop's state after a pass that ended as r, from prev
ItemStep(prev, r) ==
    IF prev.raised THEN prev
    ELSE CASE r.st = "ok"   -> [prev EXCEPT !.valid_items = Append(@, r.rec)]
           [] r.st = "skip" -> [prev EXCEPT !.msgs = @ \cup {r.msg}]
           [] OTHER         -> [prev EXCEPT !.raised = TRUE]

\* lines 50-74: the loop's state after the first n items
RECURSIVE ItemLoop(_, _, _)
ItemLoop(items, category, n) ==
    IF n = 0
    THEN [raised |-> FALSE, valid_items |-> << >>, msgs |-> {}]
    ELSE ItemStep(ItemLoop(items, category, n - 1),
                  ParseItem(items[n], n - 1, category))

\* lines 76-80 storing a category whatever it holds
KeepCategoryAlways(categories, category, valid_items) ==
    [c \in DOMAIN categories \cup {category} |->
        IF c = category THEN valid_items ELSE categories[c]]

\* lines 76-80
KeepCategory(categories, category, valid_items) ==
    IF valid_items # << >>
    THEN [c \in DOMAIN categories \cup {category} |->
            IF c = category THEN valid_items ELSE categories[c]]
    ELSE categories

\* lines 76-80 and the exception's way out, from the item loop's end
CategoryDone(prev, category, loop) ==
    IF loop.raised
    THEN [prev EXCEPT !.exit = "raise", !.msgs = @ \cup loop.msgs]
    ELSE [exit |-> "",
          categories_data |-> KeepCategory(prev.categories_data, category, loop.valid_items),
          total_items |-> prev.total_items + Len(loop.valid_items),
          msgs |-> prev.msgs \cup loop.msgs \cup
              IF loop.valid_items = << >>
              THEN {<<"warning", "empty_category", category, 0>>}
              ELSE {}]

\* lines 44-80: one pass of the category loop.  exit is "" while the loop
\* runs, "return" after line 47 and "raise" after an uncaught exception
CategoryStep(prev, category, items) ==
    IF prev.exit # "" THEN prev
    ELSE IF ~items.isList
    THEN [prev EXCEPT !.exit = "return",
                      !.msgs = @ \cup {<<"error", "not_list", category, 0>>}]
    ELSE CategoryDone(prev, category, ItemLoop(items.items, category, Len(items.items)))

\* lines 44-80: the category loop's state after the first n names of CatOrder
\* (the dict's keys are visited in that order)
RECURSIVE CategoryLoop(_, _)
CategoryLoop(data, n) ==
    IF n = 0
    THEN [exit |-> "", categories_data |-> << >>, total_items |-> 0, msgs |-> {}]
    ELSE IF CatOrder[n] \notin DOMAIN data
    THEN CategoryLoop(data, n - 1)
    ELSE CategoryStep(CategoryLoop(data, n - 1), CatOrder[n], data[CatOrder[n]])

\* lines 82-94, from the category loop's end
Outcome(loop) ==
    CASE loop.exit = "return" -> [ret |-> None, msgs |-> loop.msgs]
      [] loop.exit = "raise" ->
            [ret |-> None, msgs |-> loop.msgs \cup {<<"error", "unexpected", "", 0>>}]
      [] OTHER ->
            IF Truthy(loop.categories_data)
            THEN [ret |-> loop.categories_data,
                  msgs |-> loop.msgs \cup {<<"success", "loaded", "", loop.total_items>>}]
            ELSE [ret |-> None, msgs |-> loop.msgs \cup {<<"error", "no_data", "", 0>>}]

\* lines 30-94
load_json_data(text) ==
    IF ~text.valid
    THEN [ret |-> None, msgs |-> {<<"error", "json_decode", "", 0>>}]
    ELSE IF ~text.isDict
    THEN [ret |-> None, msgs |-> {<<"error", "not_dict", "", 0>>}]
    ELSE Outcome(CategoryLoop(text.data, Len(CatOrder)))

----------------------------------------------------------------------------
(* The documents load_json_data is run on *)

NonDictItem == [isDict |-> FALSE, obj |-> << >>]
Obj(o) == [isDict |-> TRUE, obj |-> o]
IntRarity(n) == [t |-> "int", v |-> n]

RawItems ==
    { NonDictItem,
      Obj([name |-> "Apple", image |-> "apple.png", rarity |-> IntRarity(2)]),
      Obj([name |-> "Kiwi", rarity |-> IntRarity(5)]),
      Obj([image |-> "plum.png", rarity |-> IntRarity(0)]),
      Obj([image |-> "lime.png", rarity |-> IntRarity(-2)]),
      Obj(<< >>),
      Obj([name |-> "Fig", rarity |-> [t |-> "str", v |-> 0]]),
      Obj([rarity |-> [t |-> "null", v |-> 0]]),
      Obj([name |-> "Date", rarity |-> [t |-> "inf", v |-> 0]]) }

ItemListsOfLen(k) == [1..k -> RawItems]

NonList == [isList |-> FALSE, items |-> << >>]
List(items) == [isList |-> TRUE, items |-> items]

\* the values of one category that hold exactly k items
CategoryValues(k) ==
    {List(l) : l \in ItemListsOfLen(k)} \cup (IF k = 0 THEN {NonList} ELSE {})

\* the ways to give each key of S a number of items, MaxItems at most in all
RECURSIVE FcnSum(_, _)
FcnSum(f, S) ==
    IF S = {} THEN 0
    ELSE LET c == CHOOSE c \in S : TRUE IN f[c] + FcnSum(f, S \ {c})

Splits(S) == {lens \in [S -> 0..MaxItems] : FcnSum(lens, S) <= MaxItems}

\* the dicts whose key c holds lens[c] items, for c in S
RECURSIVE DictsWith(_, _)
DictsWith(S, lens) ==
    IF S = {} THEN {<< >>}
    ELSE LET c == CHOOSE c \in S : TRUE
         IN  { [x \in S |-> IF x = c THEN v ELSE d[x]] :
                  d \in DictsWith(S \ {c}, lens), v \in CategoryValues(lens[c]) }

InvalidJson == [valid |-> FALSE, isDict |-> FALSE, data |-> << >>]
NonDictJson == [valid |-> TRUE, isDict |-> FALSE, data |-> << >>]
DictJson(d) == [valid |-> TRUE, isDict |-> TRUE, data |-> d]

\* json_text is one of the documents within the bounds
IsDocument(text) ==
    \/ text \in {InvalidJson, NonDictJson}
    \/ \E S \in SUBSET CatNames : \E lens \in Splits(S) :
           \E d \in DictsWith(S, lens) : text = DictJson(d)

NotCalled == [ret |-> None, msgs |-> {}]

----------------------------------------------------------------------------
(* SpecLoad: load_json_data called on any document *)

InitLoad ==
    /\ IsDocument(json_text)
    /\ loaded = NotCalled
    /\ pc = "call"
    /\ heap = << >> /\ catalog = << >> /\ counts = << >> /\ drops = None
    /\ session_state = None /\ input_method = "" /\ json_input = None
    /\ categories_data = None /\ generate_button = FALSE

Load ==
    /\ pc = "call"
    /\ loaded' = load_json_data(json_text)
    /\ pc' = "returned"
    /\ UNCHANGED <<json_text, dropVars, mainVars>>

NextLoad == Load

SpecLoad == InitLoad /\ [][NextLoad]_vars

----------------------------------------------------------------------------
(* Claims about load_json_data, checked under SpecLoad.  What the claims   *)
(* expect is stated on the document itself, not through the loops above.   *)

Data == json_text.data
Returned == pc = "returned"
ReturnedCatalog == Returned /\ loaded.ret # None
IsMapping == json_text.valid /\ json_text.isDict
AllLists == \A c \in DOMAIN Data : Data[c].isList

\* an object whose rarity is absent or an integer: int() succeeds on it
HasIntRarity(item) ==
    item.isDict /\ ("rarity" \notin DOMAIN item.obj \/ item.obj.rarity.t = "int")
\* an object whose rarity is an infinite float
HasNonFiniteRarity(item) ==
    item.isDict /\ "rarity" \in DOMAIN item.obj /\ item.obj.rarity.t = "inf"
\* not an object, or an object whose rarity int() rejects
IsInvalid(item) == ~HasIntRarity(item)

\* the positions (from 1) of the valid items among the first n
RECURSIVE KeptPositions(_, _)
KeptPositions(items, n) ==
    IF n = 0 THEN << >>
    ELSE IF HasIntRarity(items[n])
         THEN Append(KeptPositions(items, n - 1), n)
         ELSE KeptPositions(items, n - 1)
Kept(items) == KeptPositions(items, Len(items))

Clamped(r) == IF r > 3 THEN 3 ELSE IF r < 1 THEN 1 ELSE r

\* the record the spec expects for the valid item at position p
ExpectedRecord(item, p, prefix) ==
    LET rarity == IF "rarity" \in DOMAIN item.obj THEN Clamped(item.obj.rarity.v) ELSE 3
    IN  [name   |-> IF "name" \in DOMAIN item.obj THEN item.obj.name
                    ELSE prefix \o ToString(p),
         image  |-> IF "image" \in DOMAIN item.obj THEN item.obj.image ELSE "",
         rarity |-> rarity,
         weight |-> rarity]

ExpectedItems(items, prefix) ==
    LET kept == Kept(items)
    IN  [k \in DOMAIN kept |-> ExpectedRecord(items[kept[k]], kept[k], prefix)]

\* the catalog the spec expects of a mapping whose values are all lists
ExpectedCatalog(data, prefix) ==
    LET cats == {c \in DOMAIN data : Kept(data[c].items) # << >>}
    IN  IF cats = {} THEN None
        ELSE [c \in cats |-> ExpectedItems(data[c].items, prefix)]

\* the integer rarities written in the lists of data
RawRarities(data) ==
    UNION { { data[c].items[p].obj.rarity.v :
                p \in {q \in DOMAIN data[c].items :
                          /\ HasIntRarity(data[c].items[q])
                          /\ "rarity" \in DOMAIN data[c].items[q].obj} }
            : c \in {x \in DOMAIN data : data[x].isList} }

\* C3: every record of a returned catalog has a rarity in {1,2,3} and a weight
\* equal to it, and every object whose rarity is an integer is kept with that
\* integer clamped into [1,3] (above 3 becomes 3, below 1 becomes 1)
C3_RarityClampedAndKept ==
    ReturnedCatalog =>
        /\ \A c \in DOMAIN loaded.ret : \A k \in DOMAIN loaded.ret[c] :
              /\ loaded.ret[c][k].rarity \in {1, 2, 3}
              /\ loaded.ret[c][k].weight = loaded.ret[c][k].rarity
        /\ \A c \in DOMAIN Data :
              LET items == Data[c].items
                  kept == Kept(items)
              IN  kept # << >> =>
                    /\ c \in DOMAIN loaded.ret
                    /\ Len(loaded.ret[c]) = Len(kept)
                    /\ \A k \in DOMAIN kept :
                          "rarity" \in DOMAIN items[kept[k]].obj =>
                              loaded.ret[c][k].rarity = Clamped(items[kept[k]].obj.rarity.v)

\* a catalog was returned for a document holding a rarity above 3 and one below 1
C3_Witness ==
    /\ ReturnedCatalog
    /\ \E r \in RawRarities(Data) : r > 3
    /\ \E r \in RawRarities(Data) : r < 1

\* the causes of failure
SomeNonList == \E c \in DOMAIN Data : ~Data[c].isList
SomeNonFinite ==
    \E c \in DOMAIN Data : Data[c].isList /\
        \E p \in DOMAIN Data[c].items : HasNonFiniteRarity(Data[c].items[p])
SomeValidItem ==
    \E c \in DOMAIN Data : Data[c].isList /\ Kept(Data[c].items) # << >>

\* C4 as stated, on the documents whose rarities are all finite: a mapping in
\* which some category holds a valid item yields a catalog
C4_FailsOnlyForThreeCauses ==
    (Returned /\ IsMapping /\ ~SomeNonFinite /\ SomeValidItem) => loaded.ret # None

\* C4 amended: load_json_data returns no catalog exactly when the text is not
\* valid JSON, the top-level value is not a mapping, some category's value is
\* not a list, some item object has a non-finite rarity (int() raises
\* OverflowError, which only the outer handler catches), or no category holds
\* a valid item
C4_FailureCauses ==
    Returned =>
        (loaded.ret = None <=>
            \/ ~json_text.valid
            \/ ~json_text.isDict
            \/ SomeNonList
            \/ SomeNonFinite
            \/ ~SomeValidItem)

\* no catalog because of a category that is not a list, beside a category
\* holding a valid item
C4_Witness ==
    /\ Returned /\ IsMapping /\ SomeNonList /\ ~SomeNonFinite /\ SomeValidItem
    /\ loaded.ret = None

\* C5: on a mapping of lists, invalid items (not an object, or a rarity that
\* int() rejects) are skipped and never fatal: the result is the catalog of
\* the valid items, in their order, by category
C5_InvalidItemNeverFatal ==
    (Returned /\ IsMapping /\ AllLists) =>
        loaded.ret = ExpectedCatalog(Data, "Element ")

\* C6: on a mapping of lists in which a category has no valid item and the
\* categories that have one hold valid items only, a catalog is returned, and
\* it holds exactly the categories with a valid item, none of them empty
C6_EmptyCategoryDropped ==
    (/\ Returned /\ IsMapping /\ AllLists
     /\ \E c \in DOMAIN Data : Kept(Data[c].items) = << >>
     /\ \E c \in DOMAIN Data : Kept(Data[c].items) # << >>
     /\ \A c \in DOMAIN Data :
           Kept(Data[c].items) # << >> => Len(Kept(Data[c].items)) = Len(Data[c].items))
    => /\ loaded.ret # None
       /\ DOMAIN loaded.ret = {c \in DOMAIN Data : Kept(Data[c].items) # << >>}
       /\ \A c \in DOMAIN loaded.ret : loaded.ret[c] # << >>

\* the valid items with a missing field
MissingField(item) == HasIntRarity(item) /\ DOMAIN item.obj # {"name", "image", "rarity"}

\* C10 with the default name the claim states
C10_DefaultsItem ==
    ReturnedCatalog =>
        \A c \in DOMAIN Data :
            LET items == Data[c].items
                kept == Kept(items)
            IN  \A k \in DOMAIN kept :
                    MissingField(items[kept[k]]) =>
                        /\ c \in DOMAIN loaded.ret
                        /\ k \in DOMAIN loaded.ret[c]
                        /\ loaded.ret[c][k] = ExpectedRecord(items[kept[k]], kept[k], "Item ")

\* C10 amended: an item object with missing fields is kept: a missing name
\* becomes "Element {index+1}" (the source's Cyrillic word, transliterated),
\* index the 0-based position in the original list, a missing image becomes
\* "", a missing rarity becomes 3, a present one is clamped into [1,3]
C10_DefaultsElement ==
    ReturnedCatalog =>
        \A c \in DOMAIN Data :
            LET items == Data[c].items
                kept == Kept(items)
            IN  \A k \in DOMAIN kept :
                    MissingField(items[kept[k]]) =>
                        /\ c \in DOMAIN loaded.ret
                        /\ k \in DOMAIN loaded.ret[c]
                        /\ loaded.ret[c][k] = ExpectedRecord(items[kept[k]], kept[k], "Element ")

\* a catalog was returned for a list whose first item was skipped and whose
\* second item has no name, no image and no rarity
C10_Witness ==
    /\ ReturnedCatalog
    /\ \E c \in DOMAIN Data :
          /\ Len(Data[c].items) >= 2
          /\ IsInvalid(Data[c].items[1])
          /\ Data[c].items[2] = Obj(<< >>)
          /\ loaded.ret[c][1].name = "Element 2"

----------------------------------------------------------------------------
(* generate_category_drops.  The catalog's records and the returned        *)
(* records are objects of a heap (a sequence: the object id is the index), *)
(* so that a record shared between the catalog and a result, or changed in *)
(* place, shows.                                                           *)

\* line 107
num_drops(category_counts, category) == Get(category_counts, category, 0)

\* line 105 drawing every category from all the items of the catalog
items_of_any(categories, category) ==
    LET F[n \in 0..Len(CatOrder)] ==
            IF n = 0 THEN << >>
            ELSE F[n - 1] \o Get(categories, CatOrder[n], << >>)
    IN  F[Len(CatOrder)]

\* line 105: the items of the category the loop is at
items_of(categories, category) == categories[category]

\* lines 109-111 leaving the category out of the result
EmptyDrawSkipped(results, category) == results

\* lines 109-111: results[category] = []
EmptyDraw(results, category) ==
    [c \in DOMAIN results \cup {category} |->
        IF c = category THEN << >> ELSE results[c]]

\* random.choices(indices, weights=weights, k=k), for a positive total
\* weight: any k indices of positive weight.  Positions count from 1 here
Choices(weights, k) ==
    {sel \in [1..k -> DOMAIN weights] : \A j \in 1..k : weights[sel[j]] > 0}

\* lines 129-133
display_item(item) ==
    [name |-> item.name, image |-> item.image, rarity |-> item.rarity]

\* lines 125-134 appending the catalog's own records
CategoryResultsShared(h, items, selected_indices) ==
    [heap |-> h,
     category_results |-> [j \in DOMAIN selected_indices |-> items[selected_indices[j]]]]

\* lines 125-134: every pass makes a new dict (the copy of line 127 is
\* dropped at the end of the pass and is not kept in the heap)
CategoryResults(h, items, selected_indices) ==
    [heap |-> h \o [j \in DOMAIN selected_indices |->
                        display_item(h[items[selected_indices[j]]])],
     category_results |-> [j \in DOMAIN selected_indices |-> Len(h) + j]]

\* line 136: results[category] = category_results, with the heap the pass
\* leaves
Drawn(prev, category, made) ==
    [raised |-> FALSE,
     heap |-> made.heap,
     results |-> [c \in DOMAIN prev.results \cup {category} |->
                    IF c = category THEN made.category_results ELSE prev.results[c]]]

\* lines 113-136, for the items, their weights and the count k > 0
Draw(prev, category, items, weights, k) ==
    IF SeqSum(weights) <= 0
    THEN {[prev EXCEPT !.raised = TRUE]}
    ELSE { Drawn(prev, category, CategoryResults(prev.heap, items, sel))
           : sel \in Choices(weights, k) }

\* lines 109-136, for the items and the count of the category
DrawOrEmpty(prev, category, items, k) ==
    IF k <= 0 \/ items = << >>
    THEN {[prev EXCEPT !.results = EmptyDraw(@, category)]}
    ELSE Draw(prev, category, items,
              [i \in DOMAIN items |-> prev.heap[items[i]].weight], k)

\* lines 106-136: one pass of the loop, from the loop's state prev; the set
\* of the states it may end in
DropStep(prev, categories, category_counts, category) ==
    DrawOrEmpty(prev, category, items_of(categories, category),
                num_drops(category_counts, category))

\* lines 105-136: the states the loop may be in after the first n names of
\* CatOrder
RECURSIVE DropLoop(_, _, _, _)
DropLoop(h, categories, category_counts, n) ==
    IF n = 0
    THEN {[raised |-> FALSE, heap |-> h, results |-> << >>]}
    ELSE UNION { IF prev.raised \/ CatOrder[n] \notin DOMAIN categories
                 THEN {prev}
                 ELSE DropStep(prev, categories, category_counts, CatOrder[n])
                 : prev \in DropLoop(h, categories, category_counts, n - 1) }

\* lines 97-142: the set of [ret, heap] the call may end with
generate_category_drops(h, categories, category_counts) ==
    IF ~Truthy(categories)
    THEN {[ret |-> << >>, heap |-> h]}
    ELSE { [ret |-> IF end.raised THEN << >> ELSE end.results, heap |-> end.heap]
           : end \in DropLoop(h, categories, category_counts, Len(CatOrder)) }

----------------------------------------------------------------------------
(* SpecDrops: generate_category_drops called on any catalog and counts     *)

Rec(name, image, rarity) ==
    [name |-> name, image |-> image, rarity |-> rarity, weight |-> rarity]

\* the records a category's pool is made of
PoolRecords(category) ==
    IF category = "Fruits"
    THEN {Rec("Apple", "apple.png", 3), Rec("Durian", "", 1)}
    ELSE {Rec("Carrot", "carrot.png", 2), Rec("Potato", "", 3)}

\* the heap and the catalog built from pools, a category -> sequence of
\* records: the records are laid out in the heap in CatOrder
RECURSIVE Allocate(_, _)
Allocate(pools, n) ==
    IF n = 0 THEN [heap |-> << >>, catalog |-> << >>]
    ELSE LET prev == Allocate(pools, n - 1)
             c == CatOrder[n]
         IN  IF c \notin DOMAIN pools THEN prev
             ELSE [heap |-> prev.heap \o pools[c],
                   catalog |-> [x \in DOMAIN prev.catalog \cup {c} |->
                                  IF x = c
                                  THEN [i \in DOMAIN pools[c] |-> Len(prev.heap) + i]
                                  ELSE prev.catalog[x]]]

PoolsOf(category) == UNION {[1..k -> PoolRecords(category)] : k \in 0..MaxPool}

InitDrops ==
    /\ \E S \in SUBSET CatNames :
         \E pools \in {f \in [S -> UNION {PoolsOf(c) : c \in CatNames}] :
                          \A c \in S : f[c] \in PoolsOf(c)} :
            /\ heap = Allocate(pools, Len(CatOrder)).heap
            /\ catalog = Allocate(pools, Len(CatOrder)).catalog
    /\ \E S \in SUBSET CatNames : counts \in [S -> 0..MaxCount]
    /\ drops = None
    /\ pc = "call"
    /\ json_text = InvalidJson /\ loaded = NotCalled
    /\ session_state = None /\ input_method = "" /\ json_input = None
    /\ categories_data = None /\ generate_button = FALSE

Generate ==
    /\ pc = "call"
    /\ \E out \in generate_category_drops(heap, catalog, counts) :
          /\ drops' = out.ret
          /\ heap' = out.heap
    /\ pc' = "returned"
    /\ UNCHANGED <<catalog, counts, loadVars, mainVars>>

NextDrops == Generate

SpecDrops == InitDrops /\ [][NextDrops]_vars

----------------------------------------------------------------------------
(* Claims about generate_category_drops, checked under SpecDrops *)

\* the length the spec gives the drawn sequence of category c
ExpectedLen(c) ==
    IF c \in DOMAIN counts /\ counts[c] > 0 /\ catalog[c] # << >>
    THEN counts[c] ELSE 0

\* C1: the result's keys are the catalog's keys, and category c's sequence
\* has length counts[c] when counts[c] > 0 and the pool is not empty and is
\* empty otherwise (count 0, c missing from counts, empty pool); an empty
\* catalog yields the empty mapping
C1_KeysAndLengths ==
    Returned =>
        /\ DOMAIN drops = DOMAIN catalog
        /\ \A c \in DOMAIN catalog :
              c \in DOMAIN drops /\ Len(drops[c]) = ExpectedLen(c)

\* a call that drew for one category and returned an empty sequence for
\* another whose count is 0, beside an empty pool or a missing count
C1_Witness ==
    /\ Returned
    /\ \E c \in DOMAIN catalog : ExpectedLen(c) = MaxCount /\ Len(drops[c]) = MaxCount
    /\ \E c \in DOMAIN catalog :
          /\ catalog[c] # << >> /\ drops[c] = << >>
          /\ (c \notin DOMAIN counts \/ counts[c] = 0)

\* the display fields of a heap object
Shown(h, id) == [name |-> h[id].name, image |-> h[id].image, rarity |-> h[id].rarity]

\* the catalog and the counts cut down to category c
Only(f, c) == [x \in DOMAIN f \cap {c} |-> f[x]]

\* C2: every drawn record of category c shows the name, image and rarity of a
\* record of c's own pool, and the number of records drawn for c is the
\* number drawn when c is the only category of the catalog and of the counts
C2_PerCategoryIndependence ==
    Returned =>
        \A c \in DOMAIN drops :
            /\ c \in DOMAIN catalog
            /\ \A j \in DOMAIN drops[c] :
                  \E i \in DOMAIN catalog[c] :
                      Shown(heap, drops[c][j]) = Shown(heap, catalog[c][i])
            /\ \A alone \in generate_category_drops(heap, Only(catalog, c), Only(counts, c)) :
                  /\ c \in DOMAIN alone.ret
                  /\ Len(alone.ret[c]) = Len(drops[c])

\* two categories were drawn from, with different counts
C2_Witness ==
    /\ Returned
    /\ \E c, d \in DOMAIN drops :
          /\ drops[c] # << >> /\ drops[d] # << >>
          /\ Len(drops[c]) # Len(drops[d])

\* C9: the call leaves the catalog (the mapping, the order of the records and
\* every field of every record) and the counts as they were, and every
\* returned record is a new object, used once, holding exactly name, image
\* and rarity
C9_Pure ==
    [][pc' = "returned" =>
          /\ catalog' = catalog
          /\ counts' = counts
          /\ \A id \in DOMAIN heap : id \in DOMAIN heap' /\ heap'[id] = heap[id]
          /\ \A c \in DOMAIN drops' :
                /\ \A j \in DOMAIN drops'[c] :
                      /\ drops'[c][j] \notin DOMAIN heap
                      /\ drops'[c][j] \in DOMAIN heap'
                      /\ DOMAIN heap'[drops'[c][j]] = {"name", "image", "rarity"}
                /\ \A j, k \in DOMAIN drops'[c] : j # k => drops'[c][j] # drops'[c][k]
                /\ \A d \in DOMAIN drops' \ {c} : Range(drops'[c]) \cap Range(drops'[d]) = {}
     ]_vars

\* a call returned several records drawn from a pool holding one record
C9_Witness ==
    /\ Returned
    /\ \E c \in DOMAIN drops : Len(drops[c]) >= 2 /\ Len(catalog[c]) = 1

----------------------------------------------------------------------------
(* main: the script runs once, top to bottom, after every user action, on  *)
(* the widgets' current values and st.session_state.  The catalogs and the *)
(* results held in the session are values (sequences of records).          *)

\* number_input's value of line 307 when the session holds no count
DefaultCount == 3
\* number_input's max_value, line 306
MaxValue == 20

TextMethod == "text"
FileMethod == "file"

\* an uploaded file whose bytes are not UTF-8
NotUtf8 == [NotUtf8 |-> TRUE]

\* lines 184-189
InitialSession ==
    [categories_data |-> None, generated_results |-> None, category_counts |-> << >>]

\* lines 202-228: main's local categories_data after the sidebar; input is
\* None for an empty text area and for no uploaded file
Sidebar(method, input) ==
    IF input = None THEN None
    ELSE IF input = NotUtf8 THEN None
    ELSE load_json_data(input).ret

\* lines 231-234 storing whatever was parsed
UpdateSessionAlways(ss, parsed) ==
    [ss EXCEPT !.categories_data = parsed, !.generated_results = None]

\* lines 231-234 without the reset of line 234
UpdateSessionKeepResults(ss, parsed) ==
    IF Truthy(parsed) THEN [ss EXCEPT !.categories_data = parsed] ELSE ss

\* lines 231-234
UpdateSession(ss, parsed) ==
    IF Truthy(parsed)
    THEN [ss EXCEPT !.categories_data = parsed, !.generated_results = None]
    ELSE ss

\* lines 295-310: the number inputs' values; set holds the value the user
\* has just given one of them, the others show what the last run stored, or
\* the default
NumberInputs(ss, set) ==
    [c \in DOMAIN ss.categories_data |->
        IF c \in DOMAIN set THEN set[c] ELSE Get(ss.category_counts, c, DefaultCount)]

\* sum(category_counts.values()), line 329
SumValues(f) ==
    LET F[S \in SUBSET DOMAIN f] ==
            IF S = {} THEN 0
            ELSE LET c == CHOOSE c \in S : TRUE IN f[c] + F[S \ {c}]
    IN  F[DOMAIN f]

\* the results of a call, read back from the heap
ReadBack(out) ==
    [c \in DOMAIN out.ret |-> [j \in DOMAIN out.ret[c] |-> out.heap[out.ret[c][j]]]]

\* generate_category_drops on a catalog of values: the records are laid out
\* in a heap for the call and the returned ids are read back
DrawResults(categories, category_counts) ==
    { ReadBack(out) :
        out \in UNION { generate_category_drops(at.heap, at.catalog, category_counts)
                        : at \in {Allocate(categories, Len(CatOrder))} } }

\* lines 312-336, for the number inputs' values
Generated(ss, category_counts, generate) ==
    IF generate /\ SumValues(category_counts) # 0
    THEN {[ss EXCEPT !.category_counts = category_counts, !.generated_results = r] :
            r \in DrawResults(ss.categories_data, category_counts)}
    ELSE {[ss EXCEPT !.category_counts = category_counts]}

\* lines 267-336: the session states the main area may leave
MainArea(ss, set, generate) ==
    IF ~Truthy(ss.categories_data) THEN {ss}
    ELSE Generated(ss, NumberInputs(ss, set), generate)

\* lines 339-375: rerun says that line 375 was reached
Results(after, parsed, regenerate) ==
    IF Truthy(after.generated_results) /\ regenerate
    THEN [ss |-> [after EXCEPT !.generated_results = None],
          categories_data |-> parsed, rerun |-> TRUE]
    ELSE [ss |-> after, categories_data |-> parsed, rerun |-> FALSE]

\* lines 230-375, for the local categories_data the sidebar left
AfterSidebar(ss, parsed, set, generate, regenerate) ==
    { Results(after, parsed, regenerate) :
        after \in MainArea(UpdateSession(ss, parsed), set, generate) }

\* lines 182-375: one pass of the script
Pass(ss, method, input, set, generate, regenerate) ==
    AfterSidebar(ss, Sidebar(method, input), set, generate, regenerate)

\* a run and, after st.rerun(), the run that follows it with no button
\* pressed
MainRun(ss, method, input, set, generate, regenerate) ==
    UNION { IF end.rerun
            THEN Pass(end.ss, method, input, << >>, FALSE, FALSE)
            ELSE {end}
            : end \in Pass(ss, method, input, set, generate, regenerate) }

----------------------------------------------------------------------------
(* Spec: the session driven by the user's actions *)

Apple == Obj([name |-> "Apple", image |-> "apple.png", rarity |-> IntRarity(2)])
Kiwi == Obj([name |-> "Kiwi", rarity |-> IntRarity(5)])
Plum == Obj([image |-> "plum.png", rarity |-> IntRarity(0)])
Fig == Obj([name |-> "Fig", rarity |-> [t |-> "str", v |-> 0]])

\* the documents the user types or uploads
SessionDocs ==
    { InvalidJson,
      NonDictJson,
      DictJson([Fruits |-> List(<<Apple>>)]),
      DictJson([Fruits |-> List(<<Kiwi, Fig>>), Veg |-> List(<<Plum>>)]),
      DictJson([Fruits |-> List(<<Apple>>), Veg |-> NonList]),
      DictJson([Fruits |-> List(<<Fig>>), Veg |-> List(<< >>)]) }

Inputs(method) ==
    {None} \cup SessionDocs \cup (IF method = FileMethod THEN {NotUtf8} ELSE {})

Init ==
    /\ session_state = InitialSession
    /\ input_method = TextMethod
    /\ json_input = None
    /\ categories_data = None
    /\ generate_button = FALSE
    /\ pc = "main"
    /\ json_text = InvalidJson /\ loaded = NotCalled
    /\ heap = << >> /\ catalog = << >> /\ counts = << >> /\ drops = None

Run(method, input, set, generate, regenerate) ==
    /\ \E end \in MainRun(session_state, method, input, set, generate, regenerate) :
          /\ session_state' = end.ss
          /\ categories_data' = end.categories_data
    /\ input_method' = method
    /\ json_input' = input
    /\ generate_button' = generate
    /\ UNCHANGED <<pc, loadVars, dropVars>>

\* the user types into the text area, or uploads or removes a file
EditInput ==
    \E input \in Inputs(input_method) \ {json_input} :
        Run(input_method, input, << >>, FALSE, FALSE)

\* the user picks the other input method: its widget starts empty
SwitchInputMethod ==
    \E method \in {TextMethod, FileMethod} \ {input_method} :
        Run(method, None, << >>, FALSE, FALSE)

\* the user changes one number input
SetCount ==
    /\ Truthy(session_state.categories_data)
    /\ \E c \in DOMAIN session_state.categories_data :
         \E n \in (0..Min(MaxCount, MaxValue)) \ {session_state.category_counts[c]} :
            Run(input_method, json_input, [x \in {c} |-> n], FALSE, FALSE)

\* the user presses the generate button
PressGenerate ==
    /\ Truthy(session_state.categories_data)
    /\ Run(input_method, json_input, << >>, TRUE, FALSE)

\* the user presses the button under the results
PressRegenerate ==
    /\ Truthy(session_state.generated_results)
    /\ Run(input_method, json_input, << >>, FALSE, TRUE)

Next ==
    \/ EditInput
    \/ SwitchInputMethod
    \/ SetCount
    \/ PressGenerate
    \/ PressRegenerate

Spec == Init /\ [][Next]_vars

----------------------------------------------------------------------------
(* Claims about main, checked under Spec *)

\* the stored results were drawn from the stored catalog
ResultsOfStoredCatalog ==
    Truthy(session_state.generated_results) =>
        /\ Truthy(session_state.categories_data)
        /\ DOMAIN session_state.generated_results = DOMAIN session_state.categories_data
        /\ \A c \in DOMAIN session_state.generated_results :
              \A j \in DOMAIN session_state.generated_results[c] :
                  /\ c \in DOMAIN session_state.categories_data
                  /\ \E i \in DOMAIN session_state.categories_data[c] :
                        session_state.generated_results[c][j]
                            = display_item(session_state.categories_data[c][i])

\* C7: a run that replaces the stored catalog (its sidebar parsed one) and in
\* which the generate button is not pressed ends with generated_results =
\* None, and stored results are always results of the stored catalog
C7_ResultsClearedWithCatalog ==
    /\ [][(Truthy(categories_data') /\ ~generate_button')
            => session_state'.generated_results = None]_vars
    /\ []ResultsOfStoredCatalog

\* a run later in a session (a count has been set) stored the catalog it
\* parsed, the generate button was not pressed, and no results are stored
C7_Witness ==
    /\ Truthy(categories_data)
    /\ ~generate_button
    /\ session_state.categories_data = categories_data
    /\ session_state.generated_results = None
    /\ \E c \in DOMAIN session_state.category_counts :
          session_state.category_counts[c] # DefaultCount

\* the run was given an input other than the one before
NewInput == json_input' # None /\ json_input' # json_input

\* C8 as stated: after a run given new input the session holds what that run
\* parsed, and nothing when the input failed to parse
C8_CatalogReplacedOrDiscarded ==
    [][NewInput => session_state'.categories_data = categories_data']_vars

\* C8 amended: after a run given new input the session holds the catalog of
\* the new input when it parsed, and keeps the catalog it held when the new
\* input failed to parse
C8_CatalogReplacedOrKept ==
    [][NewInput =>
          /\ json_input' \in SessionDocs =>
                categories_data' = load_json_data(json_input').ret
          /\ session_state'.categories_data =
                IF Truthy(categories_data') THEN categories_data'
                ELSE session_state.categories_data]_vars

\* the last input failed to parse and the session still holds a catalog
C8_Witness ==
    /\ json_input # None
    /\ categories_data = None
    /\ Truthy(session_state.categories_data)

====
